---- MODULE Spec2Model ----
(***************************************************************************)
(* State-machine model of ssh-tunnel-manager (gouh/ssh-tunnel-manager).    *)
(*                                                                         *)
(* The module models the variant with confirmation modals and one          *)
(* log-capture goroutine per tunnel (src/unnamed/part_002): the Bubbletea  *)
(* model value `m`, the backing arrays of the m.tunnels slice, the ssh     *)
(* subprocesses, the streamTunnelLogs goroutines, the pending connectingMsg *)
(* timers and the renderer (View).                                         *)
(*                                                                         *)
(* Go values are modelled by what they are in memory:                      *)
(*   - a string typed by the user is a sequence of one-character strings;  *)
(*   - m.tunnels is a slice header [arr, len] into `heap`, the sequence of *)
(*     backing arrays ever allocated; append and delete act on the arrays  *)
(*     the way Go's append does (in place while len < cap, otherwise a     *)
(*     fresh array of doubled capacity);                                   *)
(*   - a *tunnel held by a goroutine is the pair (array, index);           *)
(*   - the sync.Mutex of a tunnel is the field `locked` of its slot, so    *)
(*     that copying the struct copies the state of the mutex.              *)
(* A []string of log entries is modelled by its contents (a sequence): two *)
(* copies of a tunnel struct hold separate logs from the copy on.          *)
(***************************************************************************)
EXTENDS Integers, Sequences, FiniteSets, TLC

VARIABLES
    m,        \* the model value held by the Bubbletea program (type model)
    heap,     \* backing arrays of m.tunnels: heap[a][i] is one tunnel struct
    procs,    \* ssh subprocesses, by tunnel id
    workers,  \* streamTunnelLogs goroutines, by tunnel id
    timers,   \* connectingMsg ticks scheduled and not yet delivered
    running,  \* "running", "quit" (tea.Quit returned), "panic", "fatal", "hung"
    render,   \* "idle", or "reading" while renderBody reads the logs it displays
    deleted,  \* history: ids of the tunnels removed by a confirmed delete
    env       \* what the user and the operating system may do in this run

vars == <<m, heap, procs, workers, timers, running, render, deleted, render, env>>

----------------------------------------------------------------------------
(* Bounds of the model.                                                    *)

MaxTunnels == 2     \* ssh subprocesses started in a run of the life-cycle environment
MaxLines == 1       \* lines the first subprocess writes to stderr
MaxTimers == 1      \* connectingMsg ticks in flight at once
RingLines == 150    \* lines the subprocess writes when the log window is filled

(* Program constants.                                                      *)

maxHostVisible == 10
MaxLogs == 100

----------------------------------------------------------------------------
(* Views and wizard steps (the iota constants).                            *)

viewMain == "viewMain"
viewNewTunnel == "viewNewTunnel"
viewQuitConfirm == "viewQuitConfirm"
viewDeleteConfirm == "viewDeleteConfirm"
viewHelp == "viewHelp"

stepHost == "stepHost"
stepHostIP == "stepHostIP"
stepManualHost == "stepManualHost"
stepRemotePort == "stepRemotePort"
stepLocalPort == "stepLocalPort"
stepTag == "stepTag"
stepVerbose == "stepVerbose"
stepConnecting == "stepConnecting"

----------------------------------------------------------------------------
(* Strings.                                                                *)

Empty == <<>>                    \* the Go string ""; a string is a sequence of characters

Digits == {"0", "1", "2", "3", "4", "5", "6", "7", "8", "9"}
Lower == {"a", "b", "c", "h", "n", "q", "t", "x", "y"}
Upper == {"A", "T"}
ToLower(c) == IF c = "A" THEN "a" ELSE IF c = "T" THEN "t" ELSE c

\* strings.Fields: the maximal runs of non-space characters.
RECURSIVE FieldsFrom(_, _, _)
FieldsFrom(s, cur, acc) ==
    IF s = <<>> THEN (IF cur = <<>> THEN acc ELSE Append(acc, cur))
    ELSE IF Head(s) = " "
         THEN FieldsFrom(Tail(s), <<>>, IF cur = <<>> THEN acc ELSE Append(acc, cur))
         ELSE FieldsFrom(Tail(s), Append(cur, Head(s)), acc)

Fields(s) == FieldsFrom(s, <<>>, <<>>)

extractHostname(hostWithIP) ==
    LET parts == Fields(hostWithIP)
    IN IF Len(parts) >= 2 THEN parts[Len(parts)] ELSE hostWithIP

extractAllHostnames(hostWithIP) ==
    LET parts == Fields(hostWithIP)
    IN IF Len(parts) <= 1 THEN <<>> ELSE parts

NoErr == <<>>
PortInUseErr(port) == <<"port already in use", port>>

RandomName == <<"r">>            \* namesgenerator.GetRandomName(0)

----------------------------------------------------------------------------
(* The tunnels slice and its backing arrays.                               *)

\* The zero value of type tunnel: what an unused slot of a backing array holds.
ZeroTunnel ==
    [id |-> 0, tag |-> Empty, host |-> Empty, localPort |-> Empty,
     remotePort |-> Empty, verbose |-> FALSE, cmd |-> 0, logs |-> <<>>,
     active |-> FALSE, locked |-> FALSE]

NilSlice == [arr |-> 0, len |-> 0]

Cap(h, sl) == IF sl.arr = 0 THEN 0 ELSE Len(h[sl.arr])

\* m.tunnels[i], 0 <= i < len(m.tunnels)
At(h, sl, i) == h[sl.arr][i + 1]

\* The capacity Go's append gives a slice of tunnel structs that has to grow
\* (runtime growslice: doubling below 256 elements; 136-byte elements keep the
\* doubled capacity after rounding up to a size class).
GrowCap(c) == IF c = 0 THEN 1 ELSE 2 * c

\* append(m.tunnels, t): the new heap and the new slice header.
AppendTunnel(h, sl, t) ==
    IF sl.len < Cap(h, sl)
    THEN [heap |-> [h EXCEPT ![sl.arr][sl.len + 1] = t],
          tunnels |-> [sl EXCEPT !.len = sl.len + 1]]
    ELSE LET newcap == GrowCap(Cap(h, sl))
             fresh == [i \in 1..newcap |->
                          IF i <= sl.len THEN h[sl.arr][i]
                          ELSE IF i = sl.len + 1 THEN t ELSE ZeroTunnel]
         IN [heap |-> Append(h, fresh),
             tunnels |-> [arr |-> Len(h) + 1, len |-> sl.len + 1]]

\* append(m.tunnels[:idx], m.tunnels[idx+1:]...): the elements behind idx move
\* one slot down inside the same backing array; the last slot keeps its value.
RemoveTunnel(h, sl, idx) ==
    [heap |-> [h EXCEPT ![sl.arr] =
                  [i \in 1..Len(h[sl.arr]) |->
                      IF i > idx /\ i < sl.len THEN h[sl.arr][i + 1]
                      ELSE h[sl.arr][i]]],
     tunnels |-> [sl EXCEPT !.len = sl.len - 1]]

\* What the sidebar list keeps of a tunnel: a copy of the struct, seen through
\* FilterValue, Title and Description.
ListItem(t) ==
    [id |-> t.id, tag |-> t.tag, host |-> t.host, localPort |-> t.localPort,
     remotePort |-> t.remotePort, active |-> t.active]

\* updateTunnelList: SetItems with a copy of every tunnel; the list keeps its index.
updateTunnelList_itemsKept(mm, h) == mm

updateTunnelList(mm, h) ==
    [mm EXCEPT !.tunnelList.items =
        [i \in 1..mm.tunnels.len |-> ListItem(h[mm.tunnels.arr][i])]]

----------------------------------------------------------------------------
(* Update: the key handlers, as functions of the model value.  A handler   *)
(* yields the model it returns and the command it returns.                 *)

Ret(mm, cmd) == [m |-> mm, cmd |-> cmd]

CmdNil == "nil"
CmdQuit == "tea.Quit"
CmdConnect == "waitForConnection"
Panic == "panic"                 \* index out of range inside Update

\* Fault: the answer of the probe is ignored.
handleEnter_stepLocalPort_noProbe(mm, inUse) ==
    IF mm.input /= Empty
    THEN Ret([mm EXCEPT !.tempLocal = mm.input, !.input = Empty,
                        !.err = NoErr, !.step = stepTag], CmdNil)
    ELSE Ret(mm, CmdNil)

\* handleEnter, case stepLocalPort; inUse is the answer of isPortInUse(m.input).
handleEnter_stepLocalPort(mm, inUse) ==
    IF mm.input /= Empty
    THEN IF inUse
         THEN Ret([mm EXCEPT !.err = PortInUseErr(mm.input),
                             !.input = Empty], CmdNil)
         ELSE Ret([mm EXCEPT !.tempLocal = mm.input, !.input = Empty,
                             !.err = NoErr, !.step = stepTag], CmdNil)
    ELSE Ret(mm, CmdNil)

\* handleEnter; inUse is the answer of isPortInUse(m.input).
handleEnter(mm, inUse) ==
    IF mm.view /= viewNewTunnel THEN Ret(mm, CmdNil)
    ELSE CASE mm.step = stepHost ->
                IF mm.cursor >= Len(mm.hosts) THEN Ret(mm, Panic)
                ELSE LET selectedHost == mm.hosts[mm.cursor + 1]
                         ips == extractAllHostnames(selectedHost)
                     IN IF Len(ips) > 1
                        THEN Ret([mm EXCEPT !.hostIPs = ips, !.step = stepHostIP,
                                            !.hostIPIndex = 0, !.hostIPScroll = 0], CmdNil)
                        ELSE Ret([mm EXCEPT !.hostIPs = ips,
                                            !.tempHost = extractHostname(selectedHost),
                                            !.step = stepRemotePort], CmdNil)
           [] mm.step = stepHostIP ->
                IF mm.hostIPIndex >= Len(mm.hostIPs) THEN Ret(mm, Panic)
                ELSE Ret([mm EXCEPT !.tempHost = mm.hostIPs[mm.hostIPIndex + 1],
                                    !.hostIPs = <<>>, !.step = stepRemotePort], CmdNil)
           [] mm.step = stepManualHost ->
                IF mm.input /= Empty
                THEN Ret([mm EXCEPT !.tempHost = mm.input, !.input = Empty,
                                    !.step = stepRemotePort], CmdNil)
                ELSE Ret(mm, CmdNil)
           [] mm.step = stepRemotePort ->
                IF mm.input /= Empty
                THEN Ret([mm EXCEPT !.tempRemote = mm.input, !.input = Empty,
                                    !.step = stepLocalPort], CmdNil)
                ELSE Ret(mm, CmdNil)
           [] mm.step = stepLocalPort -> handleEnter_stepLocalPort(mm, inUse)
           [] mm.step = stepTag ->
                Ret([mm EXCEPT !.tempTag = IF mm.input = Empty THEN RandomName ELSE mm.input,
                               !.input = Empty, !.step = stepVerbose], CmdNil)
           [] mm.step = stepVerbose ->
                Ret([mm EXCEPT !.tempVerbose = FALSE, !.step = stepConnecting], CmdConnect)
           [] OTHER -> Ret(mm, CmdNil)

\* The text steps of the wizard take every key as text input before any command.
InTextStep(mm) ==
    /\ mm.view = viewNewTunnel
    /\ mm.step \in {stepRemotePort, stepLocalPort, stepTag, stepManualHost}

IsChar(k) == k \in Digits \cup Lower \cup Upper \cup {" ", "-", "_", ".", "@", "?"}

\* The default branch of the text steps: what typing the key k adds to m.input.
Typed(mm, k) ==
    IF ~IsChar(k) THEN Empty
    ELSE CASE mm.step \in {stepRemotePort, stepLocalPort} ->
                IF k \in Digits THEN <<k>> ELSE Empty
           [] mm.step = stepTag ->
                IF k = " " THEN <<"_">>
                ELSE IF k \in Lower \cup Digits \cup {"-", "_"} THEN <<k>>
                ELSE IF k \in Upper THEN <<ToLower(k)>>
                ELSE Empty
           [] mm.step = stepManualHost ->
                IF k \in Lower \cup Upper \cup Digits \cup {".", "-", "@"} THEN <<k>>
                ELSE Empty
           [] OTHER -> Empty

TextKey(mm, k, inUse) ==
    CASE k \in {"esc"} -> Ret([mm EXCEPT !.view = viewMain], CmdNil)
      [] k = "enter" -> handleEnter(mm, inUse)
      [] k = "backspace" ->
            Ret([mm EXCEPT !.input = IF Len(mm.input) > 0
                                     THEN SubSeq(mm.input, 1, Len(mm.input) - 1)
                                     ELSE mm.input], CmdNil)
      [] OTHER -> Ret([mm EXCEPT !.input = mm.input \o Typed(mm, k)], CmdNil)

----------------------------------------------------------------------------
(* The sidebar list (bubbles/list): its items and its index.               *)

CursorUp(l) == [l EXCEPT !.index = IF l.index > 0 THEN l.index - 1 ELSE 0]

CursorDown(l) ==
    LET n == Len(l.items)
    IN [l EXCEPT !.index = IF l.index + 1 < n THEN l.index + 1
                           ELSE IF l.index + 1 > n THEN 0 ELSE n - 1]

\* m.tunnelList.Update(msg) for a key message.
ListKey(l, k) ==
    CASE k \in {"up", "k"} -> CursorUp(l)
      [] k \in {"down", "j"} -> CursorDown(l)
      [] OTHER -> l

\* The end of Update: in the main view with the sidebar selected the list gets
\* the message and selectedTunnel follows the index of the list.
Trailing(mm, k) ==
    IF mm.view = viewMain /\ mm.selectedPanel = 0
    THEN LET l == ListKey(mm.tunnelList, k)
         IN [mm EXCEPT !.tunnelList = l, !.selectedTunnel = l.index]
    ELSE mm

----------------------------------------------------------------------------
(* Subprocesses, stderr lines and log entries.                             *)

\* The k-th line the subprocess pid writes to stderr; a blank line is "".
Line(pid, k, blank) == [pid |-> pid, n |-> k, blank |-> blank]

\* "[15:04:05] " + line: the entry made of a line (the clock is not modelled).
Entry(line) == [pid |-> line.pid, n |-> line.n]

\* "[15:04:05] Tunnel started"
Seed == [pid |-> 0, n |-> 0]

NoLine == [pid |-> 0, n |-> 0, blank |-> TRUE]

\* Fault: above 100 entries the newest entry is dropped, not the oldest.
AppendLog_dropNewest(logs, e) ==
    LET l == Append(logs, e)
    IN IF Len(l) > MaxLogs THEN SubSeq(l, 1, MaxLogs) ELSE l

\* Fault: the new entry is put in front.
AppendLog_inFront(logs, e) ==
    LET l == <<e>> \o logs
    IN IF Len(l) > MaxLogs THEN Tail(l) ELSE l

\* append, then drop the oldest entry above 100.
AppendLog(logs, e) ==
    LET l == Append(logs, e)
    IN IF Len(l) > MaxLogs THEN Tail(l) ELSE l

\* The arguments finalizeTunnel gives to ssh.
sshArgs(mm) ==
    <<"-N", "-L", mm.tempLocal \o <<":localhost:">> \o mm.tempRemote>>
        \o (IF mm.tempVerbose THEN <<"-v">> ELSE <<>>)
        \o <<mm.tempHost>>

\* Fault: the kill is not sent.
Kill_notSent(ps, pid) == ps

\* cmd.Process.Kill()
Kill(ps, pid) == [ps EXCEPT ![pid].alive = FALSE, ![pid].signaled = TRUE]

\* for i := range m.tunnels { if active && cmd != nil { Kill } }
RECURSIVE KillAllFrom(_, _, _, _)
KillAllFrom(ps, h, sl, i) ==
    IF i >= sl.len THEN ps
    ELSE LET t == At(h, sl, i)
         IN KillAllFrom(IF t.active /\ t.cmd /= 0 THEN Kill(ps, t.cmd) ELSE ps,
                        h, sl, i + 1)

\* Fault: the loop starts at the second tunnel.
KillAll_fromSecond(ps, h, sl) == KillAllFrom(ps, h, sl, 1)

KillAll(ps, h, sl) == KillAllFrom(ps, h, sl, 0)

----------------------------------------------------------------------------
(* Environments: the hosts of ~/.ssh/config, the words the user types into *)
(* each text field of the wizard, the number of subprocesses that start    *)
(* and the number of lines each writes.                                    *)

H(c) == <<c>>

Vocab(host, port, tag) ==
    [s \in {stepManualHost, stepRemotePort, stepLocalPort, stepTag} |->
        {Empty} \cup (IF s = stepManualHost THEN host
                      ELSE IF s = stepTag THEN tag ELSE port)]

\* The life cycle of several tunnels; the wizard is filled in one way, the
\* first subprocess writes to stderr and the second may exit on its own.
EnvLife ==
    [hosts |-> <<H("a")>>,
     vocab |-> Vocab({}, {H("1")}, {}),
     verbose |-> {FALSE},
     busy |-> {},
     blank |-> BOOLEAN,
     maxStarts |-> MaxTunnels,
     maxLines |-> [p \in 1..MaxTunnels |-> IF p = 1 THEN MaxLines ELSE 0],
     exits |-> {2},
     maxTimers |-> MaxTimers]

\* One tunnel, whose subprocess writes to stderr and may exit on its own.
EnvOne == [EnvLife EXCEPT !.maxStarts = 1, !.exits = {1}]

\* No ~/.ssh/config, or none with a Host entry: getSSHHosts returns no host;
\* the user can still type a host after pressing m.
EnvNoHosts == [EnvOne EXCEPT !.hosts = <<>>, !.vocab = Vocab({H("t")}, {H("1")}, {})]

\* One tunnel, whose subprocess writes RingLines lines, none of them blank.
EnvRing ==
    [EnvOne EXCEPT !.blank = {FALSE},
                   !.maxLines = [p \in 1..MaxTunnels |-> IF p = 1 THEN RingLines ELSE 0]]

\* initialModel
initialModel(hosts) ==
    [view |-> viewMain,
     tunnels |-> NilSlice,
     tunnelList |-> [items |-> <<>>, index |-> 0],
     selectedPanel |-> 0,
     selectedTunnel |-> 0,
     logScroll |-> 0,
     deleteTunnelIdx |-> 0,
     step |-> stepHost,
     hosts |-> hosts,
     hostIPs |-> <<>>,
     hostIPIndex |-> 0,
     hostIPScroll |-> 0,
     cursor |-> 0,
     hostScroll |-> 0,
     input |-> Empty,
     tempHost |-> Empty,
     tempRemote |-> Empty,
     tempLocal |-> Empty,
     tempTag |-> Empty,
     tempVerbose |-> FALSE,
     err |-> NoErr,
     nextTunnelID |-> 1]

\* The program after tea.NewProgram(initialModel()), in the environment e.
InitIn(e) ==
    /\ env = e
    /\ m = initialModel(e.hosts)
    /\ heap = <<>>
    /\ procs = <<>>
    /\ workers = <<>>
    /\ timers = 0
    /\ running = "running"
    /\ render = "idle"
    /\ deleted = {}

Init == InitIn(EnvLife)

----------------------------------------------------------------------------
(* Key messages.                                                           *)

\* The program takes the model and the command Update returned.
Apply(r) ==
    /\ InTextStep(r.m) => r.m.input \in env.vocab[r.m.step]
    /\ r.cmd = CmdConnect => timers < env.maxTimers /\ r.m.tempVerbose \in env.verbose
    /\ m' = IF r.cmd = Panic THEN m ELSE r.m
    /\ timers' = IF r.cmd = CmdConnect THEN timers + 1 ELSE timers
    /\ running' = IF r.cmd = CmdQuit THEN "quit"
                  ELSE IF r.cmd = Panic THEN "panic" ELSE running

\* The user presses k now.
Pressed(k) == running = "running" /\ render = "idle"

KeyHelp ==
    /\ Pressed("?")
    /\ Apply(IF InTextStep(m) THEN TextKey(m, "?", FALSE)
             ELSE IF m.view = viewMain THEN Ret([m EXCEPT !.view = viewHelp], CmdNil)
             ELSE Ret(Trailing(m, "?"), CmdNil))
    /\ UNCHANGED <<heap, procs, workers, deleted, render, env>>

\* Fault: q quits at once, without the confirmation.
pressQuit_atOnce(mm) ==
    IF mm.view = viewHelp THEN Ret([mm EXCEPT !.view = viewMain], CmdNil)
    ELSE Ret(mm, CmdQuit)

\* case "ctrl+c", "q" of Update; with tea.Quit the caller has killed the tunnels.
pressQuit(mm) ==
    IF mm.view = viewQuitConfirm THEN Ret(mm, CmdQuit)
    ELSE IF mm.view = viewHelp THEN Ret([mm EXCEPT !.view = viewMain], CmdNil)
    ELSE Ret([mm EXCEPT !.view = viewQuitConfirm], CmdNil)

KeyQuit ==
    \E k \in {"ctrl+c", "q"} :
        /\ Pressed(k)
        /\ LET r == IF InTextStep(m) THEN TextKey(m, k, FALSE) ELSE pressQuit(m)
           IN /\ Apply(r)
              /\ procs' = IF r.cmd = CmdQuit THEN KillAll(procs, heap, m.tunnels) ELSE procs
        /\ UNCHANGED <<heap, workers, deleted, render, env>>

KeyTab ==
    /\ Pressed("tab")
    /\ Apply(IF InTextStep(m) THEN TextKey(m, "tab", FALSE)
             ELSE Ret(Trailing(IF m.view = viewMain
                               THEN [m EXCEPT !.selectedPanel = (m.selectedPanel + 1) % 2]
                               ELSE m, "tab"), CmdNil))
    /\ UNCHANGED <<heap, procs, workers, deleted, render, env>>

\* Fault: n reopens the wizard at the step it was left at.
pressN_keepStep(mm) ==
    IF mm.view = viewMain /\ mm.selectedPanel = 0
    THEN [mm EXCEPT !.view = viewNewTunnel, !.cursor = 0,
                    !.hostScroll = 0, !.input = Empty, !.err = NoErr]
    ELSE IF mm.view = viewQuitConfirm THEN [mm EXCEPT !.view = viewMain]
    ELSE mm

\* case "n" of Update
pressN(mm) ==
    IF mm.view = viewMain /\ mm.selectedPanel = 0
    THEN [mm EXCEPT !.view = viewNewTunnel, !.step = stepHost, !.cursor = 0,
                    !.hostScroll = 0, !.input = Empty, !.err = NoErr]
    ELSE IF mm.view = viewQuitConfirm THEN [mm EXCEPT !.view = viewMain]
    ELSE mm

KeyN ==
    /\ Pressed("n")
    /\ Apply(IF InTextStep(m) THEN TextKey(m, "n", FALSE)
             ELSE Ret(Trailing(pressN(m), "n"), CmdNil))
    /\ UNCHANGED <<heap, procs, workers, deleted, render, env>>

KeyShiftN ==
    /\ Pressed("N")
    /\ Apply(IF InTextStep(m) THEN TextKey(m, "N", FALSE)
             ELSE Ret(Trailing(IF m.view = viewQuitConfirm THEN [m EXCEPT !.view = viewMain]
                               ELSE m, "N"), CmdNil))
    /\ UNCHANGED <<heap, procs, workers, deleted, render, env>>

KeyM ==
    /\ Pressed("m")
    /\ Apply(IF InTextStep(m) THEN TextKey(m, "m", FALSE)
             ELSE Ret(Trailing(IF m.view = viewNewTunnel /\ m.step = stepHost
                               THEN [m EXCEPT !.step = stepManualHost, !.input = Empty]
                               ELSE m, "m"), CmdNil))
    /\ UNCHANGED <<heap, procs, workers, deleted, render, env>>

\* case "esc", "escape" of Update
pressEsc_alwaysMain(mm) ==
    IF mm.view \in {viewNewTunnel, viewQuitConfirm, viewDeleteConfirm, viewHelp}
    THEN [mm EXCEPT !.view = viewMain]
    ELSE mm

pressEsc(mm) ==
    IF mm.view = viewNewTunnel /\ mm.step = stepHostIP
    THEN [mm EXCEPT !.step = stepHost, !.hostIPs = <<>>]
    ELSE IF mm.view \in {viewNewTunnel, viewQuitConfirm, viewDeleteConfirm, viewHelp}
    THEN [mm EXCEPT !.view = viewMain]
    ELSE mm

KeyEsc ==
    /\ Pressed("esc")
    /\ Apply(IF InTextStep(m) THEN TextKey(m, "esc", FALSE)
             ELSE Ret(Trailing(pressEsc(m), "esc"), CmdNil))
    /\ UNCHANGED <<heap, procs, workers, deleted, render, env>>

\* isPortInUse(port): whether `ss -tuln` lists the port.  A port another program
\* holds is listed; the port of a running ssh is listed once ssh has bound it.
PortAnswers(port) ==
    IF port \in env.busy THEN {TRUE}
    ELSE IF \E p \in 1..Len(procs) : procs[p].alive /\ procs[p].localPort = port
         THEN BOOLEAN
         ELSE {FALSE}

KeyEnter ==
    /\ Pressed("enter")
    /\ \E inUse \in PortAnswers(m.input) : Apply(handleEnter(m, inUse))
    /\ UNCHANGED <<heap, procs, workers, deleted, render, env>>

KeyBackspace ==
    /\ Pressed("backspace")
    /\ Apply(IF InTextStep(m) THEN TextKey(m, "backspace", FALSE)
             ELSE Ret(Trailing(m, "backspace"), CmdNil))
    /\ UNCHANGED <<heap, procs, workers, deleted, render, env>>

\* case "up", "k" of Update
pressUp(mm) ==
    IF mm.view = viewMain /\ mm.selectedPanel = 0 THEN mm
    ELSE IF mm.view = viewMain /\ mm.selectedPanel = 1
    THEN [mm EXCEPT !.logScroll = IF mm.logScroll > 0 THEN mm.logScroll - 1
                                  ELSE mm.logScroll]
    ELSE IF mm.view = viewNewTunnel /\ mm.step = stepHost
    THEN LET c == IF mm.cursor > 0 THEN mm.cursor - 1 ELSE mm.cursor
         IN [mm EXCEPT !.cursor = c,
                       !.hostScroll = IF c < mm.hostScroll THEN c ELSE mm.hostScroll]
    ELSE IF mm.view = viewNewTunnel /\ mm.step = stepHostIP
    THEN LET c == IF mm.hostIPIndex > 0 THEN mm.hostIPIndex - 1 ELSE mm.hostIPIndex
         IN [mm EXCEPT !.hostIPIndex = c,
                       !.hostIPScroll = IF c < mm.hostIPScroll THEN c ELSE mm.hostIPScroll]
    ELSE mm

KeyUp ==
    \E k \in {"up", "k"} :
        /\ Pressed(k)
        /\ Apply(IF InTextStep(m) THEN TextKey(m, k, FALSE)
                 ELSE Ret(Trailing(pressUp(m), k), CmdNil))
        /\ UNCHANGED <<heap, procs, workers, deleted, render, env>>

\* case "down", "j" of Update
pressDown(mm, h) ==
    IF mm.view = viewMain /\ mm.selectedPanel = 0 THEN mm
    ELSE IF mm.view = viewMain /\ mm.selectedPanel = 1
    THEN IF mm.tunnels.len > 0 /\ mm.selectedTunnel < mm.tunnels.len
         THEN LET maxScroll == Len(At(h, mm.tunnels, mm.selectedTunnel).logs) - 1
              IN [mm EXCEPT !.logScroll = IF mm.logScroll < maxScroll
                                          THEN mm.logScroll + 1 ELSE mm.logScroll]
         ELSE mm
    ELSE IF mm.view = viewNewTunnel /\ mm.step = stepHost
    THEN LET c == IF mm.cursor < Len(mm.hosts) - 1 THEN mm.cursor + 1 ELSE mm.cursor
         IN [mm EXCEPT !.cursor = c,
                       !.hostScroll = IF c >= mm.hostScroll + maxHostVisible
                                      THEN c - maxHostVisible + 1 ELSE mm.hostScroll]
    ELSE IF mm.view = viewNewTunnel /\ mm.step = stepHostIP
    THEN LET c == IF mm.hostIPIndex < Len(mm.hostIPs) - 1 THEN mm.hostIPIndex + 1
                  ELSE mm.hostIPIndex
         IN [mm EXCEPT !.hostIPIndex = c,
                       !.hostIPScroll = IF c >= mm.hostIPScroll + maxHostVisible
                                        THEN c - maxHostVisible + 1 ELSE mm.hostIPScroll]
    ELSE mm

KeyDown ==
    \E k \in {"down", "j"} :
        /\ Pressed(k)
        /\ Apply(IF InTextStep(m) THEN TextKey(m, k, FALSE)
                 ELSE Ret(Trailing(pressDown(m, heap), k), CmdNil))
        /\ UNCHANGED <<heap, procs, workers, deleted, render, env>>

\* Fault: the confirmation is opened for the first tunnel, not the one at the cursor.
deleteRequest_first(mm) ==
    IF /\ mm.view = viewMain /\ mm.selectedPanel = 0 /\ mm.tunnels.len > 0
       /\ mm.tunnelList.index < mm.tunnels.len
    THEN [mm EXCEPT !.view = viewDeleteConfirm, !.deleteTunnelIdx = 0]
    ELSE mm

\* Fault: the request is taken without looking at the collection.
deleteRequest_unchecked(mm) ==
    IF mm.view = viewMain /\ mm.selectedPanel = 0
    THEN [mm EXCEPT !.view = viewDeleteConfirm, !.deleteTunnelIdx = mm.tunnelList.index]
    ELSE mm

\* case "d": ask for the confirmation of the tunnel at the cursor of the list.
deleteRequest(mm) ==
    IF /\ mm.view = viewMain /\ mm.selectedPanel = 0 /\ mm.tunnels.len > 0
       /\ mm.tunnelList.index < mm.tunnels.len
    THEN [mm EXCEPT !.view = viewDeleteConfirm, !.deleteTunnelIdx = mm.tunnelList.index]
    ELSE mm

KeyD ==
    /\ Pressed("d")
    /\ Apply(IF InTextStep(m) THEN TextKey(m, "d", FALSE)
             ELSE Ret(Trailing(deleteRequest(m), "d"), CmdNil))
    /\ UNCHANGED <<heap, procs, workers, deleted, render, env>>

\* Y in the delete confirmation: kill, remove, refresh the list.
DeleteConfirmed(mm, h, ps) ==
    LET idx == mm.deleteTunnelIdx
    IN IF idx < mm.tunnels.len
       THEN LET t == At(h, mm.tunnels, idx)
                doKill == t.active /\ t.cmd /= 0
                h1 == IF doKill THEN [h EXCEPT ![mm.tunnels.arr][idx + 1].active = FALSE]
                      ELSE h
                rm == RemoveTunnel(h1, mm.tunnels, idx)
                m1 == updateTunnelList([mm EXCEPT !.tunnels = rm.tunnels], rm.heap)
                m2 == IF idx >= m1.tunnels.len /\ idx > 0
                      THEN [m1 EXCEPT !.selectedTunnel = idx - 1] ELSE m1
            IN [m |-> [m2 EXCEPT !.view = viewMain],
                heap |-> rm.heap,
                procs |-> IF doKill THEN Kill(ps, t.cmd) ELSE ps,
                gone |-> {t.id}]
       ELSE [m |-> [mm EXCEPT !.view = viewMain], heap |-> h, procs |-> ps, gone |-> {}]

KeyY ==
    \E k \in {"y", "Y"} :
        /\ Pressed(k)
        /\ IF InTextStep(m)
           THEN /\ Apply(TextKey(m, k, FALSE))
                /\ UNCHANGED <<heap, procs, deleted>>
           ELSE IF m.view = viewNewTunnel /\ m.step = stepVerbose
           THEN /\ Apply(Ret([m EXCEPT !.tempVerbose = TRUE, !.step = stepConnecting],
                             CmdConnect))
                /\ UNCHANGED <<heap, procs, deleted>>
           ELSE IF m.view = viewQuitConfirm
           THEN /\ Apply(Ret(m, CmdQuit))
                /\ procs' = KillAll(procs, heap, m.tunnels)
                /\ UNCHANGED <<heap, deleted>>
           ELSE IF m.view = viewDeleteConfirm
           THEN LET d == DeleteConfirmed(m, heap, procs)
                IN /\ Apply(Ret(Trailing(d.m, k), CmdNil))
                   /\ heap' = d.heap
                   /\ procs' = d.procs
                   /\ deleted' = deleted \cup d.gone
           ELSE /\ Apply(Ret(Trailing(m, k), CmdNil))
                /\ UNCHANGED <<heap, procs, deleted>>
        /\ UNCHANGED <<workers, render, env>>

\* Any other character key: text in a text step, no command elsewhere.
OtherKeys == {"1", "2", "t", "T", " "}

KeyChar ==
    \E k \in OtherKeys :
        /\ Pressed(k)
        /\ Apply(IF InTextStep(m) THEN TextKey(m, k, FALSE)
                 ELSE Ret(Trailing(m, k), CmdNil))
        /\ UNCHANGED <<heap, procs, workers, deleted, render, env>>

----------------------------------------------------------------------------
(* Timer messages.                                                         *)

\* spinner.TickMsg, tea.WindowSizeMsg, logMsg: only the end of Update acts.
SpinnerTick ==
    /\ running = "running"
    /\ render = "idle"
    /\ m' = Trailing(m, "tick")
    /\ UNCHANGED <<heap, procs, workers, timers, running, deleted, render, env>>

\* exec.Command("ssh", args...) once started; stderr is what the scanner has
\* returned of the lines ssh wrote.
NewProc(args, port) ==
    [alive |-> TRUE, signaled |-> FALSE, stderr |-> <<>>, args |-> args, localPort |-> port]

\* Fault: the id is taken before the subprocess is started.
startFailed_idTaken(mm, h, ps, ws) ==
    [m |-> [mm EXCEPT !.nextTunnelID = mm.nextTunnelID + 1],
     heap |-> h, procs |-> ps, workers |-> ws]

\* if err != nil { return m, nil }: StderrPipe or Start failed.
startFailed(mm, h, ps, ws) == [m |-> mm, heap |-> h, procs |-> ps, workers |-> ws]

\* Fault: the counter is not advanced.
nextID_kept(n) == n

\* m.nextTunnelID++
nextID(n) == n + 1

\* finalizeTunnel; outcome is what StderrPipe and Start answer.
finalizeTunnel(mm, h, ps, ws, outcome) ==
    IF outcome /= "started"
    THEN startFailed(mm, h, ps, ws)
    ELSE LET tunnelID == mm.nextTunnelID
             pid == Len(ps) + 1
             t == [id |-> tunnelID, tag |-> mm.tempTag, host |-> mm.tempHost,
                   localPort |-> mm.tempLocal, remotePort |-> mm.tempRemote,
                   verbose |-> mm.tempVerbose, cmd |-> pid, logs |-> <<Seed>>,
                   active |-> TRUE, locked |-> FALSE]
             app == AppendTunnel(h, mm.tunnels, t)
             m1 == [mm EXCEPT !.tunnels = app.tunnels,
                              !.nextTunnelID = nextID(mm.nextTunnelID),
                              !.view = viewMain,
                              !.selectedTunnel = app.tunnels.len - 1]
         IN [m |-> updateTunnelList(m1, app.heap),
             heap |-> app.heap,
             procs |-> Append(ps, NewProc(sshArgs(mm), mm.tempLocal)),
             workers |-> Append(ws, [pc |-> "scan", arr |-> app.tunnels.arr,
                                     idx |-> app.tunnels.len, line |-> NoLine])]

\* connectingMsg, two seconds after the wizard entered stepConnecting.
ConnectingMsg ==
    /\ running = "running"
    /\ render = "idle"
    /\ timers > 0
    /\ timers' = timers - 1
    /\ IF m.view = viewNewTunnel /\ m.step = stepConnecting
       THEN \E outcome \in {"pipe error", "start error", "started"} :
               /\ outcome = "started" => Len(procs) < env.maxStarts
               /\ LET f == finalizeTunnel(m, heap, procs, workers, outcome)
                  IN /\ m' = f.m
                     /\ heap' = f.heap
                     /\ procs' = f.procs
                     /\ workers' = f.workers
       ELSE /\ m' = Trailing(m, "connectingMsg")
            /\ UNCHANGED <<heap, procs, workers>>
    /\ UNCHANGED <<running, deleted, render, env>>

----------------------------------------------------------------------------
(* The ssh subprocesses.                                                   *)

Pids == 1..Len(procs)

\* The program has not ended: its goroutines run (also while the UI hangs).
Live == running \in {"running", "hung"}

\* ssh exits on its own (connection lost, forwarding refused, ...).
ProcExit(p) ==
    /\ Live
    /\ p \in env.exits
    /\ procs[p].alive
    /\ procs' = [procs EXCEPT ![p].alive = FALSE]
    /\ UNCHANGED <<m, heap, workers, timers, running, deleted, render, env>>

----------------------------------------------------------------------------
(* streamTunnelLogs: one goroutine per tunnel, holding tun = &m.tunnels[i] *)
(* of the backing array that was current when the tunnel was created.      *)

\* scanner.Scan() returns the next line ssh wrote to stderr; what ssh wrote
\* before it died is still read.  A blank line is skipped.
WorkerScan(p) ==
    /\ Live
    /\ workers[p].pc = "scan"
    /\ Len(procs[p].stderr) < env.maxLines[p]
    /\ \E blank \in env.blank :
          LET line == Line(p, Len(procs[p].stderr) + 1, blank)
          IN /\ workers' = IF blank THEN workers
                           ELSE [workers EXCEPT ![p].pc = "lock", ![p].line = line]
             /\ procs' = [procs EXCEPT ![p].stderr = Append(@, line)]
    /\ UNCHANGED <<m, heap, timers, running, deleted, render, env>>

\* scanner.Scan() returns false: the stream ended, the goroutine returns.
WorkerEOF(p) ==
    /\ Live
    /\ workers[p].pc = "scan"
    /\ ~procs[p].alive
    /\ workers' = [workers EXCEPT ![p].pc = "done"]
    /\ UNCHANGED <<m, heap, procs, timers, running, deleted, render, env>>

\* tun.logMutex.Lock()
WorkerLock(p) ==
    LET w == workers[p]
    IN /\ Live
       /\ w.pc = "lock"
       /\ ~heap[w.arr][w.idx].locked
       /\ heap' = [heap EXCEPT ![w.arr][w.idx].locked = TRUE]
       /\ workers' = [workers EXCEPT ![p].pc = "cs"]
       /\ UNCHANGED <<m, procs, timers, running, deleted, render, env>>

\* tun.logs = append(...); trim; tun.logMutex.Unlock().  Unlocking a mutex that
\* is not locked is a fatal error of the Go runtime.
WorkerAppend(p) ==
    LET w == workers[p]
        slot == heap[w.arr][w.idx]
    IN /\ Live
       /\ w.pc = "cs"
       /\ heap' = [heap EXCEPT ![w.arr][w.idx] =
                      [slot EXCEPT !.logs = AppendLog(slot.logs, Entry(w.line)),
                                   !.locked = FALSE]]
       /\ workers' = [workers EXCEPT ![p].pc = "scan", ![p].line = NoLine]
       /\ running' = IF slot.locked THEN running ELSE "fatal"
       /\ UNCHANGED <<m, procs, timers, deleted, render, env>>

----------------------------------------------------------------------------
(* View: called by the Bubbletea event loop between two calls of Update.   *)
(* Of what View does, only renderBody touches state shared with the        *)
(* goroutines.                                                             *)

\* renderBody, the tunnel whose logs it shows, or <<>> for "No tunnel selected".
Shown_unguarded(mm) ==
    IF mm.tunnels.len > 0
    THEN <<mm.tunnels.arr, mm.selectedTunnel + 1>>
    ELSE <<>>

Shown(mm) ==
    IF mm.tunnels.len > 0 /\ mm.selectedTunnel < mm.tunnels.len
    THEN <<mm.tunnels.arr, mm.selectedTunnel + 1>>
    ELSE <<>>

\* t := m.tunnels[m.selectedTunnel] ... t.logMutex.Lock(): the struct is copied
\* without holding any lock, and the mutex locked is the one inside the copy.  A
\* copy taken while the goroutine holds the mutex of the slot is a locked mutex
\* nobody unlocks: Lock never returns.
ViewBegin ==
    /\ running = "running"
    /\ render = "idle"
    /\ Shown(m) /= <<>>
    /\ IF heap[Shown(m)[1]][Shown(m)[2]].locked
       THEN running' = "hung" /\ render' = render
       ELSE running' = running /\ render' = "reading"
    /\ UNCHANGED <<m, heap, procs, workers, timers, deleted, env>>

\* copy(visibleLogs, t.logs[start:]); t.logMutex.Unlock()
ViewEnd ==
    /\ running = "running"
    /\ render = "reading"
    /\ render' = "idle"
    /\ UNCHANGED <<m, heap, procs, workers, timers, running, deleted, env>>

\* renderMainView draws the panels only on a terminal of at least 20 rows; the
\* heights of the terminal looked at are MinHeight..MaxHeight.
MinHeight == 20
MaxHeight == 21

\* renderMainView: contentHeight, the height given to renderBody.
contentHeight(termHeight) == IF termHeight - 8 < 5 THEN 5 ELSE termHeight - 8

\* renderBody: the number of log lines that fit.
availableLines(height) == IF height - 12 < 1 THEN 1 ELSE height - 12

\* renderBody: visibleLogs, the log lines drawn for the model mm on a terminal
\* of termHeight rows; <<>> stands for "No tunnel selected" too.
visibleLogs(mm, h, termHeight) ==
    IF Shown(mm) = <<>> THEN <<>>
    ELSE LET logs == h[Shown(mm)[1]][Shown(mm)[2]].logs
             totalLogs == Len(logs)
             n == availableLines(contentHeight(termHeight))
             start == IF totalLogs - n < 0 THEN 0 ELSE totalLogs - n
         IN SubSeq(logs, start + 1, totalLogs)

----------------------------------------------------------------------------

Next ==
    \/ KeyHelp \/ KeyQuit \/ KeyTab \/ KeyN \/ KeyShiftN \/ KeyM \/ KeyEsc
    \/ KeyEnter \/ KeyBackspace \/ KeyUp \/ KeyDown \/ KeyD \/ KeyY \/ KeyChar
    \/ SpinnerTick \/ ConnectingMsg \/ ViewBegin \/ ViewEnd
    \/ \E p \in Pids : ProcExit(p)
    \/ \E p \in Pids : WorkerScan(p)
    \/ \E p \in Pids : WorkerEOF(p)
    \/ \E p \in Pids : WorkerLock(p)
    \/ \E p \in Pids : WorkerAppend(p)

Spec == Init /\ [][Next]_vars

\* The program started with an empty host directory.
InitNoHosts == InitIn(EnvNoHosts)

SpecNoHosts == InitNoHosts /\ [][Next]_vars

----------------------------------------------------------------------------
(* The log window: one tunnel, just created through the wizard, and its    *)
(* goroutine appending RingLines lines.                                    *)

\* The model when connectingMsg arrives: the wizard was filled in with the
\* host of ~/.ssh/config, both ports, the random tag and no verbose output.
Connecting(mm) ==
    [mm EXCEPT !.view = viewNewTunnel, !.step = stepConnecting,
               !.hostIPs = extractAllHostnames(mm.hosts[1]),
               !.tempHost = extractHostname(mm.hosts[1]),
               !.tempRemote = H("1"), !.tempLocal = H("1"), !.tempTag = RandomName]

InitRing ==
    LET f == finalizeTunnel(Connecting(initialModel(EnvRing.hosts)),
                            <<>>, <<>>, <<>>, "started")
    IN /\ env = EnvRing
       /\ m = f.m
       /\ heap = f.heap
       /\ procs = f.procs
       /\ workers = f.workers
       /\ timers = 0
       /\ running = "running"
       /\ render = "idle"
       /\ deleted = {}

NextRing ==
    \/ \E p \in Pids : ProcExit(p)
    \/ \E p \in Pids : WorkerScan(p)
    \/ \E p \in Pids : WorkerEOF(p)
    \/ \E p \in Pids : WorkerLock(p)
    \/ \E p \in Pids : WorkerAppend(p)
    \/ ViewBegin \/ ViewEnd

SpecRing == InitRing /\ [][NextRing]_vars

----------------------------------------------------------------------------
(* The lists of the wizard: a host directory longer than the window, a     *)
(* host with more addresses than the window, and an empty directory.       *)

ManyHosts == 12

Letters == <<"a", "b", "c", "d", "e", "f", "g", "h", "i", "j", "k", "l", "m", "n">>

\* A line of getSSHHosts: the host a followed by n addresses, "a b c ...".
RECURSIVE WithAddresses(_)
WithAddresses(n) ==
    IF n = 0 THEN <<Letters[1]>> ELSE WithAddresses(n - 1) \o <<" ", Letters[n + 1]>>

\* ManyHosts hosts of one address; the user types nothing into the port fields.
EnvManyHosts ==
    [EnvOne EXCEPT !.hosts = [i \in 1..ManyHosts |-> <<Letters[i]>>],
                   !.vocab = Vocab({H("t")}, {}, {})]

\* One host of ManyHosts addresses.
EnvManyAddresses ==
    [EnvOne EXCEPT !.hosts = <<WithAddresses(ManyHosts)>>,
                   !.vocab = Vocab({H("t")}, {}, {})]

InitWizard == \E e \in {EnvManyHosts, EnvManyAddresses, EnvNoHosts} : InitIn(e)

\* The key messages: no timer fires and no tunnel exists.
NextWizard ==
    \/ KeyHelp \/ KeyQuit \/ KeyTab \/ KeyN \/ KeyShiftN \/ KeyM \/ KeyEsc \/ KeyEnter
    \/ KeyBackspace \/ KeyUp \/ KeyDown \/ KeyD \/ KeyY \/ KeyChar
    \/ SpinnerTick

SpecWizard == InitWizard /\ [][NextWizard]_vars

\* One host entry that names two addresses, and one tunnel: the wizard passes
\* through the IP selection, and the whole program runs.
EnvAddresses ==
    [EnvOne EXCEPT !.hosts = <<WithAddresses(1)>>, !.vocab = Vocab({H("t")}, {H("1")}, {})]

InitAddresses == InitIn(EnvAddresses)

SpecAddresses == InitAddresses /\ [][Next]_vars

\* A wizard run cancelled at the Connecting step leaves its connecting tick
\* pending while the next run schedules its own: StaleTimers ticks in flight.
StaleTimers == 2

EnvStale == [EnvOne EXCEPT !.maxTimers = StaleTimers]

InitStale == InitIn(EnvStale)

SpecStale == InitStale /\ [][Next]_vars

----------------------------------------------------------------------------
(* Several tunnels in one backing array: GrownTunnels tunnels were created  *)
(* one after the other through the wizard, all with the same answers.      *)

GrownTunnels == 4

\* The third and the fourth subprocess write one line to stderr each; the
\* second may exit on its own; no further subprocess is started.
EnvGrown ==
    [EnvLife EXCEPT !.blank = {FALSE},
                    !.maxStarts = GrownTunnels,
                    !.maxLines = [p \in 1..GrownTunnels |-> IF p >= 3 THEN MaxLines ELSE 0],
                    !.exits = {2}]

\* The program after n runs of the wizard, each ended by finalizeTunnel.
RECURSIVE StartedTimes(_)
StartedTimes(n) ==
    IF n = 0
    THEN [m |-> initialModel(EnvGrown.hosts), heap |-> <<>>, procs |-> <<>>,
          workers |-> <<>>]
    ELSE LET s == StartedTimes(n - 1)
         IN finalizeTunnel(Connecting(s.m), s.heap, s.procs, s.workers, "started")

InitGrown ==
    LET f == StartedTimes(GrownTunnels)
    IN /\ env = EnvGrown
       /\ m = f.m
       /\ heap = f.heap
       /\ procs = f.procs
       /\ workers = f.workers
       /\ timers = 0
       /\ running = "running"
       /\ render = "idle"
       /\ deleted = {}

\* From there the user only moves the cursor and deletes tunnels, while the
\* goroutines, the subprocesses and View go on: a part of the behaviours of Next.
NextGrown ==
    \/ KeyD \/ KeyY \/ KeyEsc \/ KeyUp \/ KeyDown
    \/ ViewBegin \/ ViewEnd
    \/ \E p \in Pids : ProcExit(p)
    \/ \E p \in Pids : WorkerScan(p)
    \/ \E p \in Pids : WorkerEOF(p)
    \/ \E p \in Pids : WorkerLock(p)
    \/ \E p \in Pids : WorkerAppend(p)

SpecGrown == InitGrown /\ [][NextGrown]_vars

----------------------------------------------------------------------------
(* The single-tunnel VPN variant.  It is a program of its own, whose state *)
(* is kept in the same variables: m is its model, render the command whose *)
(* message Update still awaits, workers the runTunnel goroutines, procs    *)
(* the ssh subprocesses, and running the program itself: "running" while   *)
(* p.Run runs the event loop, "quit" once Update has returned tea.Quit and *)
(* p.Run is returning, "exited" once main has returned and the process,    *)
(* with all its goroutines, is gone.                                       *)

stepCheckVPN == "stepCheckVPN"
stepVPNPrompt == "stepVPNPrompt"
stepStartingVPN == "stepStartingVPN"
stepConfirm == "stepConfirm"
stepRunning == "stepRunning"

MaxDigits == 1      \* digits typed into a port field

\* ~/.ssh/config names two hosts; the user types the digits 1 and 2.
EnvVPN == [hosts |-> <<H("a"), H("b")>>, digits |-> {"1", "2"}]

initialModelVPN ==
    [step |-> stepCheckVPN,
     vpnRunning |-> FALSE,
     hosts |-> <<>>,
     selectedHost |-> 0,
     remotePort |-> Empty,
     localPort |-> Empty,
     verbose |-> FALSE,
     input |-> Empty,
     err |-> NoErr,
     cursor |-> 0]

\* main, and Init: checkVPNCmd is in flight.
InitVPN ==
    /\ env = EnvVPN
    /\ m = initialModelVPN
    /\ heap = <<>>
    /\ procs = <<>>
    /\ workers = <<>>
    /\ timers = 0
    /\ running = "running"
    /\ render = "checkVPN"
    /\ deleted = {}

\* case vpnCheckMsg
VpnCheckMsg ==
    /\ running = "running"
    /\ render = "checkVPN"
    /\ \E up \in BOOLEAN :
          m' = IF up THEN [m EXCEPT !.vpnRunning = TRUE, !.hosts = env.hosts,
                                    !.step = stepHost]
               ELSE [m EXCEPT !.vpnRunning = FALSE, !.step = stepVPNPrompt]
    /\ render' = "idle"
    /\ UNCHANGED <<heap, procs, workers, timers, running, deleted, env>>

\* case vpnStartedMsg
VpnStartedMsg ==
    /\ running = "running"
    /\ render = "startVPN"
    /\ m' = [m EXCEPT !.vpnRunning = TRUE, !.hosts = env.hosts, !.step = stepHost]
    /\ render' = "idle"
    /\ UNCHANGED <<heap, procs, workers, timers, running, deleted, env>>

\* fmt.Errorf("port %s is already in use", m.input)
PortInUseErrVPN(port) == <<"port ">> \o port \o <<" is already in use">>

\* runTunnel: the arguments of ssh.
runTunnelArgs(host, remotePort, localPort, verbose) ==
    <<"-N", "-L", localPort \o <<":localhost:">> \o remotePort>>
        \o (IF verbose THEN <<"-v">> ELSE <<>>) \o <<host>>

\* handleEnter of the variant: the model, the command, and the arguments of
\* the runTunnel goroutine it starts (<<>> when it starts none).
handleEnterVPN(mm, inUse) ==
    CASE mm.step = stepHost ->
            [m |-> [mm EXCEPT !.selectedHost = mm.cursor, !.step = stepRemotePort],
             cmd |-> CmdNil, go |-> <<>>]
      [] mm.step = stepRemotePort ->
            [m |-> IF mm.input /= Empty
                   THEN [mm EXCEPT !.remotePort = mm.input, !.input = Empty,
                                   !.step = stepLocalPort]
                   ELSE mm,
             cmd |-> CmdNil, go |-> <<>>]
      [] mm.step = stepLocalPort ->
            [m |-> IF mm.input = Empty THEN mm
                   ELSE IF inUse
                   THEN [mm EXCEPT !.err = PortInUseErrVPN(mm.input), !.input = Empty]
                   ELSE [mm EXCEPT !.localPort = mm.input, !.input = Empty,
                                   !.err = NoErr, !.step = stepVerbose],
             cmd |-> CmdNil, go |-> <<>>]
      [] mm.step = stepConfirm ->
            [m |-> [mm EXCEPT !.step = stepRunning],
             cmd |-> CmdQuit,
             go |-> <<[pc |-> "start", cmd |-> 0,
                       args |-> runTunnelArgs(mm.hosts[mm.selectedHost + 1],
                                              mm.remotePort, mm.localPort, mm.verbose)]>>]
      [] OTHER -> [m |-> mm, cmd |-> CmdNil, go |-> <<>>]

\* case "enter"
VpnKeyEnter ==
    /\ running = "running"
    /\ \E inUse \in BOOLEAN :
          LET r == handleEnterVPN(m, inUse)
          IN /\ m' = r.m
             /\ workers' = workers \o r.go
             /\ running' = IF r.cmd = CmdQuit THEN "quit" ELSE running
    /\ UNCHANGED <<heap, procs, timers, render, deleted, env>>

\* case "ctrl+c", "q"
VpnKeyQuit ==
    /\ running = "running"
    /\ running' = "quit"
    /\ UNCHANGED <<m, heap, procs, workers, timers, render, deleted, env>>

\* case "up", "k"
VpnKeyUp ==
    /\ running = "running"
    /\ m' = IF m.step = stepHost /\ m.cursor > 0
            THEN [m EXCEPT !.cursor = m.cursor - 1] ELSE m
    /\ UNCHANGED <<heap, procs, workers, timers, running, render, deleted, env>>

\* case "down", "j"
VpnKeyDown ==
    /\ running = "running"
    /\ m' = IF m.step = stepHost /\ m.cursor < Len(m.hosts) - 1
            THEN [m EXCEPT !.cursor = m.cursor + 1] ELSE m
    /\ UNCHANGED <<heap, procs, workers, timers, running, render, deleted, env>>

\* case "y", "Y"
VpnKeyY ==
    /\ running = "running"
    /\ m' = IF m.step = stepVPNPrompt THEN [m EXCEPT !.step = stepStartingVPN]
            ELSE IF m.step = stepVerbose
            THEN [m EXCEPT !.verbose = TRUE, !.step = stepConfirm]
            ELSE m
    /\ render' = IF m.step = stepVPNPrompt THEN "startVPN" ELSE render
    /\ UNCHANGED <<heap, procs, workers, timers, running, deleted, env>>

\* case "n", "N"
VpnKeyN ==
    /\ running = "running"
    /\ m' = IF m.step = stepVerbose
            THEN [m EXCEPT !.verbose = FALSE, !.step = stepConfirm]
            ELSE m
    /\ running' = IF m.step = stepVPNPrompt THEN "quit" ELSE running
    /\ UNCHANGED <<heap, procs, workers, timers, render, deleted, env>>

\* case "backspace"
VpnKeyBackspace ==
    /\ running = "running"
    /\ m' = IF Len(m.input) > 0
            THEN [m EXCEPT !.input = SubSeq(m.input, 1, Len(m.input) - 1)] ELSE m
    /\ UNCHANGED <<heap, procs, workers, timers, running, render, deleted, env>>

\* default: a digit typed at a port step
VpnKeyDigit ==
    /\ running = "running"
    /\ \E d \in env.digits :
          m' = IF m.step \in {stepRemotePort, stepLocalPort} /\ Len(m.input) < MaxDigits
               THEN [m EXCEPT !.input = m.input \o <<d>>] ELSE m
    /\ m.step \in {stepRemotePort, stepLocalPort} => Len(m.input) < MaxDigits
    /\ UNCHANGED <<heap, procs, workers, timers, running, render, deleted, env>>

\* The runTunnel goroutine: it prints the banner and cmd.Run starts ssh.  A
\* goroutine runs only while the process exists.
RunTunnelStart(w) ==
    /\ running /= "exited"
    /\ workers[w].pc = "start"
    /\ procs' = Append(procs, [alive |-> TRUE, args |-> workers[w].args])
    /\ workers' = [workers EXCEPT ![w].pc = "run", ![w].cmd = Len(procs) + 1]
    /\ UNCHANGED <<m, heap, timers, running, render, deleted, env>>

\* ssh ends: the connection fails or is lost, or the user signals it.  A
\* subprocess outlives the program that started it.
SshExit(p) ==
    /\ procs[p].alive
    /\ procs' = [procs EXCEPT ![p].alive = FALSE]
    /\ UNCHANGED <<m, heap, workers, timers, running, render, deleted, env>>

\* cmd.Run returns and runTunnel with it.
RunTunnelReturn(w) ==
    /\ running /= "exited"
    /\ workers[w].pc = "run"
    /\ ~procs[workers[w].cmd].alive
    /\ workers' = [workers EXCEPT ![w].pc = "done"]
    /\ UNCHANGED <<m, heap, procs, timers, running, render, deleted, env>>

\* p.Run returns after tea.Quit and main returns: the process exits, whatever
\* its goroutines are doing.
MainReturn ==
    /\ running = "quit"
    /\ running' = "exited"
    /\ UNCHANGED <<m, heap, procs, workers, timers, render, deleted, env>>

NextVPN ==
    \/ VpnCheckMsg
    \/ VpnStartedMsg
    \/ VpnKeyEnter
    \/ VpnKeyQuit
    \/ VpnKeyUp
    \/ VpnKeyDown
    \/ VpnKeyY
    \/ VpnKeyN
    \/ VpnKeyBackspace
    \/ VpnKeyDigit
    \/ \E w \in 1..Len(workers) : RunTunnelStart(w)
    \/ \E p \in 1..Len(procs) : SshExit(p)
    \/ \E w \in 1..Len(workers) : RunTunnelReturn(w)
    \/ MainReturn

SpecVPN == InitVPN /\ [][NextVPN]_vars

----------------------------------------------------------------------------
(* Properties.                                                             *)

\* The tunnels of the collection, in order: m.tunnels[0], m.tunnels[1], ...
Collection == [i \in 1..m.tunnels.len |-> heap[m.tunnels.arr][i]]

CollectionAfter == [i \in 1..m'.tunnels.len |-> heap'[m'.tunnels.arr][i]]

IdsOf(c) == {c[i].id : i \in 1..Len(c)}

HasEntry(logs, e) == \E j \in 1..Len(logs) : logs[j] = e

\* The lines of subprocess p its goroutine has finished with: all it has read,
\* but the one it is about to append.
Handled(p) ==
    LET read == procs[p].stderr
    IN IF workers[p].pc \in {"lock", "cs"} THEN SubSeq(read, 1, Len(read) - 1) ELSE read

NotBlank(line) == ~line.blank

\* The entries the goroutine of p has appended, oldest first.
Written(p) ==
    LET lines == SelectSeq(Handled(p), NotBlank)
    IN [k \in 1..Len(lines) |-> Entry(lines[k])]

LastN(s, n) == IF Len(s) <= n THEN s ELSE SubSeq(s, Len(s) - n + 1, Len(s))

\* connectingMsg arrived in stepConnecting and no subprocess was started.
StartFailedStep ==
    /\ m.view = viewNewTunnel
    /\ m.step = stepConnecting
    /\ timers' = timers - 1
    /\ procs' = procs

\* C1: every non-blank line that the goroutine of a tunnel of the collection has
\* finished with is in the logs of that tunnel in m.tunnels.  (Nothing but that
\* goroutine appends the line, so a line missing then is missing for good.)
C1_LinesReachLogs ==
    \A i \in 1..Len(Collection) :
        LET t == Collection[i]
        IN \A k \in 1..Len(Written(t.cmd)) : HasEntry(t.logs, Written(t.cmd)[k])

\* C2: every entry in the logs of a tunnel of the collection, other than the
\* "Tunnel started" entry, was written by the subprocess of that tunnel.
C2_OwnLinesOnly ==
    \A i \in 1..Len(Collection) :
        LET t == Collection[i]
        IN \A j \in 1..Len(t.logs) : t.logs[j] = Seed \/ t.logs[j].pid = t.cmd

\* C3: while renderBody reads the logs of the selected tunnel, no goroutine is
\* inside its critical section on that tunnel.
C3_ReadExcludesAppend ==
    render = "reading" =>
        ~\E p \in Pids : workers[p].pc = "cs" /\ <<workers[p].arr, workers[p].idx>> = Shown(m)

\* C4: a tunnel of the collection whose subprocess has exited on its own is not
\* active once its goroutine has seen the end of stderr and returned.  (That is
\* the last code that runs on behalf of the subprocess: a flag still set then
\* stays set until the user deletes the tunnel.)
C4_ExitClearsActive ==
    \A i \in 1..Len(Collection) :
        LET t == Collection[i]
        IN (~procs[t.cmd].alive /\ ~procs[t.cmd].signaled /\ workers[t.cmd].pc = "done")
               => ~t.active

\* C5: the step that confirms the quit (tea.Quit returned from the quit
\* confirmation) leaves every subprocess ever started with a kill sent to it.
C5_QuitKillsAll ==
    [][(m.view = viewQuitConfirm /\ running = "running" /\ running' = "quit")
          => \A p \in 1..Len(procs') : procs'[p].signaled /\ ~procs'[p].alive]_vars

C5_Witness ==
    /\ running = "quit"
    /\ m.view = viewQuitConfirm
    /\ Len(procs) = 2
    /\ deleted = {1}
    /\ Len(Collection) = 1
    /\ procs[2].signaled

\* C6: the collection holds the tunnels created and not deleted, in creation
\* order; ids are distinct and increasing, none is used twice, and nextTunnelID
\* is above every id given out.
C6_CollectionIds ==
    /\ \A i, j \in 1..Len(Collection) : i < j => Collection[i].id < Collection[j].id
    /\ IdsOf(Collection) = (1..(m.nextTunnelID - 1)) \ deleted
    /\ deleted \subseteq 1..(m.nextTunnelID - 1)

C6_Witness ==
    /\ Len(Collection) = 1
    /\ Collection[1].id = 2
    /\ deleted = {1}
    /\ m.nextTunnelID = 3

\* C7: after every append the logs of the tunnel are the last MaxLogs (100) of
\* "Tunnel started" followed by the lines appended, in order.
C7_LogWindow ==
    \A p \in Pids :
        LET t == heap[workers[p].arr][workers[p].idx]
        IN /\ Len(t.logs) <= MaxLogs
           /\ t.logs = LastN(<<Seed>> \o Written(p), MaxLogs)

\* 150 lines appended to a fresh tunnel: the logs are the lines 51 to 150.
C7_Witness ==
    /\ Len(Written(1)) = 150
    /\ Collection[1].logs = [k \in 1..100 |-> [pid |-> 1, n |-> k + 50]]

\* C8: a start that fails leaves the collection, the sidebar list and
\* nextTunnelID as they were and starts no goroutine.
C8_FailedStartNoState ==
    [][StartFailedStep =>
          /\ CollectionAfter = Collection
          /\ m'.tunnels = m.tunnels
          /\ heap' = heap
          /\ m'.tunnelList = m.tunnelList
          /\ m'.nextTunnelID = m.nextTunnelID
          /\ workers' = workers]_vars

\* The wizard sits in stepConnecting with no timer left: a start has failed
\* (here with one tunnel running before it).
C8_Witness ==
    /\ m.view = viewNewTunnel
    /\ m.step = stepConnecting
    /\ timers = 0
    /\ Len(Collection) = 1
    /\ Len(workers) = 1
    /\ m.nextTunnelID = 2

\* C9: a start that fails records an error for display and takes the wizard
\* out of stepConnecting.
C9_FailedStartSurfaced ==
    [][StartFailedStep =>
          /\ m'.err /= NoErr
          /\ ~(m'.view = viewNewTunnel /\ m'.step = stepConnecting)]_vars

\* C10: a tunnel leaves the collection only in the step that confirms its
\* deletion, and after that step its subprocess has been killed.
C10_OnlyDeleteRemoves ==
    [][\A i \in 1..Len(Collection) :
          Collection[i].id \notin IdsOf(CollectionAfter) =>
              /\ m.view = viewDeleteConfirm
              /\ m.deleteTunnelIdx = i - 1
              /\ deleted' = deleted \cup {Collection[i].id}
              /\ procs'[Collection[i].cmd].signaled
              /\ ~procs'[Collection[i].cmd].alive]_vars

\* The first tunnel was deleted while its subprocess ran; the second one has
\* exited on its own and is still listed.
C10_Witness ==
    /\ deleted = {1}
    /\ procs[1].signaled
    /\ Len(Collection) = 1
    /\ Collection[1].id = 2
    /\ ~procs[2].alive
    /\ ~procs[2].signaled

\* C11: a step that kills the subprocess of a tunnel while the program goes on
\* (a stop) keeps the tunnel in the collection, with active = false.
C11_StopKeepsTunnel ==
    [][\A i \in 1..Len(Collection) :
          LET t == Collection[i]
          IN (running' = "running" /\ ~procs[t.cmd].signaled /\ procs'[t.cmd].signaled)
                 => \E j \in 1..Len(CollectionAfter) :
                        CollectionAfter[j].id = t.id /\ ~CollectionAfter[j].active]_vars

\* C12: a delete request that designates no tunnel (the collection is empty,
\* or the index is not below the number of tunnels) changes nothing: d leaves
\* the model as it is, the confirmation is only ever open on an existing
\* tunnel, and y on an index out of range leaves the collection, nextTunnelID
\* and the subprocesses alone.  Neither handler indexes out of range.
C12_NoTargetNoEffect ==
    /\ (m.tunnels.len = 0 \/ m.tunnelList.index >= m.tunnels.len) => deleteRequest(m) = m
    /\ m.view = viewDeleteConfirm => m.deleteTunnelIdx < m.tunnels.len
    /\ \A idx \in m.tunnels.len..(m.tunnels.len + 1) :
          LET d == DeleteConfirmed([m EXCEPT !.deleteTunnelIdx = idx], heap, procs)
          IN /\ d.m.tunnels = m.tunnels
             /\ d.m.tunnelList = m.tunnelList
             /\ d.m.nextTunnelID = m.nextTunnelID
             /\ d.heap = heap
             /\ d.procs = procs
             /\ d.gone = {}

\* The sidebar is selected and the only tunnel ever created has been deleted.
C12_Witness ==
    /\ m.view = viewMain
    /\ m.selectedPanel = 0
    /\ m.tunnels.len = 0
    /\ Len(procs) = 1
    /\ deleted = {1}

\* C13: in the logs of a tunnel the lines of one subprocess stand in the order
\* the subprocess wrote them: of two retained lines the earlier one is at the
\* lower index.
C13_LogOrder ==
    \A i \in 1..Len(Collection) :
        LET l == Collection[i].logs
        IN \A j, k \in 1..Len(l) :
              (j < k /\ l[j].pid = l[k].pid /\ l[j] /= Seed) => l[j].n < l[k].n

\* 120 lines were appended; the oldest retained line is the 21st.
C13_Witness ==
    /\ Len(Written(1)) = 120
    /\ Len(Collection[1].logs) = 100
    /\ Collection[1].logs[1] = [pid |-> 1, n |-> 21]
    /\ Collection[1].logs[100] = [pid |-> 1, n |-> 120]

\* C14: with an empty host directory, Enter at the host-selection step of the
\* wizard does not index m.hosts out of range.
C14_HostIndexInRange ==
    ~(running = Panic /\ m.view = viewNewTunnel /\ m.step = stepHost
        /\ m.cursor >= Len(m.hosts))

\* C15: when the probe reports the entered local port as bound, Enter at the
\* local-port step leaves the wizard at that step with the error set and the
\* input cleared, tempLocal unchanged, no subprocess started and no tunnel
\* added; with an empty input no step leaves a port step for a later one.
C15_PortInUseRejected ==
    [][/\ ( /\ m.view = viewNewTunnel /\ m.step = stepLocalPort /\ m.input /= Empty
            /\ TRUE \in PortAnswers(m.input)
            /\ m' = handleEnter(m, TRUE).m )
          => /\ m'.view = viewNewTunnel /\ m'.step = stepLocalPort
             /\ m'.err = PortInUseErr(m.input) /\ m'.input = Empty
             /\ m'.tempLocal = m.tempLocal
             /\ Len(procs') = Len(procs) /\ timers' = timers
             /\ m'.tunnels = m.tunnels /\ heap' = heap
       /\ ( /\ m.view = viewNewTunnel /\ m.step \in {stepRemotePort, stepLocalPort}
            /\ m.input = Empty )
          => /\ m'.step = m.step
             /\ Len(procs') = Len(procs)
             /\ m'.tunnels = m.tunnels]_vars

\* The wizard of a second tunnel was refused the port the first tunnel holds.
C15_Witness ==
    /\ m.view = viewNewTunnel /\ m.step = stepLocalPort
    /\ m.err = PortInUseErr(H("1")) /\ m.input = Empty
    /\ m.tempLocal = H("1")
    /\ Len(procs) = 1 /\ m.tunnels.len = 1

\* The order of the wizard: the step that may follow each step.
WizardOrder ==
    {<<stepHost, stepHostIP>>, <<stepHostIP, stepHost>>, <<stepHost, stepManualHost>>,
     <<stepHost, stepRemotePort>>, <<stepHostIP, stepRemotePort>>,
     <<stepManualHost, stepRemotePort>>, <<stepRemotePort, stepLocalPort>>,
     <<stepLocalPort, stepTag>>, <<stepTag, stepVerbose>>, <<stepVerbose, stepConnecting>>}

\* C16: a tunnel is created only from the connecting step of an open wizard; the
\* wizard opens at host selection and moves one step at a time in the order
\* host (or manual host), remote port, local port, tag, verbose, connecting;
\* host, remote port and local port are set, non-empty, by the step that leaves
\* their field and by no other, and the tunnel created carries them.
C16_WizardOrder ==
    [][/\ (m.view /= viewNewTunnel /\ m'.view = viewNewTunnel) => m'.step = stepHost
       /\ m'.step /= m.step
            => \/ m.view /= viewNewTunnel /\ m'.view = viewNewTunnel
               \/ m.view = viewNewTunnel /\ <<m.step, m'.step>> \in WizardOrder
       /\ (m.view = viewNewTunnel /\ m.step /= stepRemotePort /\ m'.step = stepRemotePort)
            => /\ m'.tempHost /= Empty
               /\ m'.tempHost = CASE m.step = stepHost -> extractHostname(m.hosts[m.cursor + 1])
                                  [] m.step = stepHostIP -> m.hostIPs[m.hostIPIndex + 1]
                                  [] OTHER -> m.input
       /\ (m.step = stepRemotePort /\ m'.step = stepLocalPort)
            => m.input /= Empty /\ m'.tempRemote = m.input
       /\ (m.step = stepLocalPort /\ m'.step = stepTag)
            => m.input /= Empty /\ m'.tempLocal = m.input
       /\ m'.tempHost /= m.tempHost
            => m.view = viewNewTunnel /\ m.step /= stepRemotePort /\ m'.step = stepRemotePort
       /\ m'.tempRemote /= m.tempRemote => m.step = stepRemotePort /\ m'.step = stepLocalPort
       /\ m'.tempLocal /= m.tempLocal => m.step = stepLocalPort /\ m'.step = stepTag
       /\ Len(CollectionAfter) > Len(Collection)
            => /\ m.view = viewNewTunnel /\ m.step = stepConnecting
               /\ LET t == CollectionAfter[Len(CollectionAfter)]
                  IN /\ t.host = m.tempHost /\ t.host /= Empty
                     /\ t.remotePort = m.tempRemote /\ t.remotePort /= Empty
                     /\ t.localPort = m.tempLocal /\ t.localPort /= Empty]_vars

\* A second tunnel was created from a second run of the wizard.
C16_Witness ==
    /\ m.view = viewMain /\ m.step = stepConnecting
    /\ Len(Collection) = 2
    /\ Collection[2].host = H("a") /\ Collection[2].remotePort = H("1")
    /\ Collection[2].localPort = H("1") /\ Collection[2].id = 2

C18_DeleteNeedsConfirm ==
    [][/\ (m.view = viewMain /\ m'.view = viewDeleteConfirm)
            => /\ m' = [m EXCEPT !.view = viewDeleteConfirm,
                                 !.deleteTunnelIdx = m.tunnelList.index]
               /\ heap' = heap /\ procs' = procs /\ deleted' = deleted
       /\ m.view = viewDeleteConfirm
            => /\ m.deleteTunnelIdx = m.tunnelList.index
               /\ m.deleteTunnelIdx < m.tunnels.len
               /\ LET e == Trailing(pressEsc(m), "esc")
                  IN e = [m EXCEPT !.view = viewMain,
                                   !.selectedTunnel = IF m.selectedPanel = 0
                                                      THEN m.tunnelList.index
                                                      ELSE m.selectedTunnel]
       /\ (m.view = viewDeleteConfirm /\ m'.view = viewDeleteConfirm)
            => /\ m'.deleteTunnelIdx = m.deleteTunnelIdx
               /\ m'.tunnelList = m.tunnelList
               /\ m'.tunnels = m.tunnels
               /\ IdsOf(CollectionAfter) = IdsOf(Collection)
       /\ IdsOf(Collection) \ IdsOf(CollectionAfter) /= {}
            => /\ m.view = viewDeleteConfirm
               /\ IdsOf(Collection) \ IdsOf(CollectionAfter)
                     = {Collection[m.tunnelList.index + 1].id}
               /\ Len(CollectionAfter) = Len(Collection) - 1]_vars

\* With two tunnels listed, d was pressed on the second and y confirmed: the
\* second is gone and the first is still there.
C18_Witness ==
    /\ m.view = viewMain
    /\ deleted = {2}
    /\ Len(Collection) = 1 /\ Collection[1].id = 1
    /\ m.deleteTunnelIdx = 1
    /\ procs[2].signaled /\ ~procs[1].signaled

\* C19: at the verbose step of the wizard the key n does what Enter does: the
\* wizard goes on to the connecting step with tempVerbose = false.
C19_NoMeansNotVerbose ==
    (running = "running" /\ m.view = viewNewTunnel /\ m.step = stepVerbose)
        => /\ pressN(m) = handleEnter(m, FALSE).m
           /\ pressN(m).step = stepConnecting
           /\ ~pressN(m).tempVerbose

\* C20: with the logs panel selected, a step that changes logScroll while the
\* logs of the selected tunnel stay the same changes the log lines drawn,
\* whenever the tunnel has more lines than fit.
C20_ScrollMovesWindow ==
    [][\A termHeight \in MinHeight..MaxHeight :
          ( /\ m.view = viewMain /\ m.selectedPanel = 1
            /\ Shown(m) /= <<>> /\ Shown(m') = Shown(m)
            /\ heap'[Shown(m)[1]][Shown(m)[2]].logs = heap[Shown(m)[1]][Shown(m)[2]].logs
            /\ Len(heap[Shown(m)[1]][Shown(m)[2]].logs)
                  > availableLines(contentHeight(termHeight))
            /\ m'.logScroll /= m.logScroll )
          => visibleLogs(m', heap', termHeight) /= visibleLogs(m, heap, termHeight)]_vars

\* C21: the subprocess of every tunnel was started with the arguments -N, -L
\* with the forward 127.0.0.1:<localPort>:localhost:<remotePort>, -v exactly
\* when the tunnel is verbose, and the host of the tunnel last.
C21_SshArguments ==
    \A i \in 1..Len(Collection) :
        LET t == Collection[i]
        IN procs[t.cmd].args =
              <<"-N", "-L",
                <<"127.0.0.1:">> \o t.localPort \o <<":localhost:">> \o t.remotePort>>
                  \o (IF t.verbose THEN <<"-v">> ELSE <<>>)
                  \o <<t.host>>

\* Some goroutine is inside the critical section of the mutex worker p waits for.
Holder(p) ==
    \E q \in 1..Len(workers) :
        /\ workers[q].pc = "cs"
        /\ workers[q].arr = workers[p].arr
        /\ workers[q].idx = workers[p].idx

\* C22: no log goroutine is stuck: none waits in Lock for a mutex that is locked
\* while no goroutine is in its critical section to unlock it, so every
\* goroutine goes on to read the end of its stream and returns.
C22_NoWorkerStuck ==
    \A p \in 1..Len(workers) :
        ~( /\ Live
           /\ workers[p].pc = "lock"
           /\ heap[workers[p].arr][workers[p].idx].locked
           /\ ~Holder(p) )

\* C23: at the host step and at the address step of the wizard the cursor is
\* an index of the list and lies in the window of maxHostVisible entries that
\* is drawn, for every host directory.
C23_CursorValid ==
    /\ (m.view = viewNewTunnel /\ m.step = stepHost)
          => /\ m.cursor \in 0..(Len(m.hosts) - 1)
             /\ m.hostScroll <= m.cursor
             /\ m.cursor < m.hostScroll + maxHostVisible
    /\ (m.view = viewNewTunnel /\ m.step = stepHostIP)
          => /\ m.cursor \in 0..(Len(m.hosts) - 1)
             /\ m.hostIPIndex \in 0..(Len(m.hostIPs) - 1)
             /\ m.hostIPScroll <= m.hostIPIndex
             /\ m.hostIPIndex < m.hostIPScroll + maxHostVisible

\* What holds of C23: the same, for the host directories that are not empty.
C23_CursorInWindow == Len(m.hosts) > 0 => C23_CursorValid


\* C24: in the quit confirmation every key but y/Y cancels: the handlers of
\* q and Ctrl+C, n, Esc, d, Enter, Up and Down return the model with view =
\* viewMain and no tea.Quit (whose caller kills the tunnels).
C24_AnyKeyCancels ==
    (running = "running" /\ m.view = viewQuitConfirm)
        => /\ pressQuit(m) = Ret([m EXCEPT !.view = viewMain], CmdNil)
           /\ pressN(m) = [m EXCEPT !.view = viewMain]
           /\ pressEsc(m) = [m EXCEPT !.view = viewMain]
           /\ handleEnter(m, FALSE) = Ret([m EXCEPT !.view = viewMain], CmdNil)
           /\ deleteRequest(m) = [m EXCEPT !.view = viewMain]
           /\ pressUp(m) = [m EXCEPT !.view = viewMain]
           /\ pressDown(m, heap) = [m EXCEPT !.view = viewMain]


\* C25: where d acts (main view, tunnel panel, a tunnel under the list cursor)
\* the tunnel displayed, m.tunnels[selectedTunnel], is the one at the list
\* cursor, and in the delete confirmation the tunnel the modal names,
\* m.tunnels[selectedTunnel], is the one y removes, m.tunnels[deleteTunnelIdx].
C25_ShownIsDeleted ==
    /\ (deleteRequest(m) /= m) => m.selectedTunnel = m.tunnelList.index
    /\ (running = "running" /\ m.view = viewDeleteConfirm)
           => m.selectedTunnel = m.deleteTunnelIdx


\* C26: every index used on m.tunnels is below len(m.tunnels) when it is used:
\* the index y kills and removes at while the delete confirmation is open, the
\* list cursor d records, the element renderBody reads and the element whose
\* logs Down measures in the log panel; a stale selectedTunnel or list cursor
\* is never used.
C26_IndexesBelowLen ==
    /\ (running = "running" /\ m.view = viewDeleteConfirm)
           => m.deleteTunnelIdx < m.tunnels.len
    /\ (deleteRequest(m) /= m)
           => deleteRequest(m).deleteTunnelIdx < m.tunnels.len
    /\ (Shown(m) /= <<>>)
           => Shown(m) = <<m.tunnels.arr, m.selectedTunnel + 1>>
              /\ Shown(m)[2] <= m.tunnels.len
    /\ (m.view = viewMain /\ m.selectedPanel = 1 /\ pressDown(m, heap) /= m)
           => m.selectedTunnel < m.tunnels.len

\* After creations and a deletion the collection is not empty and
\* selectedTunnel is not below its length: the body shows no tunnel.
C26_Witness ==
    /\ running = "running"
    /\ deleted /= {}
    /\ m.view = viewMain
    /\ m.tunnels.len > 0
    /\ m.selectedTunnel >= m.tunnels.len
    /\ Shown(m) = <<>>


\* The model Update returns for Esc.
EscResult(mm) ==
    IF InTextStep(mm) THEN TextKey(mm, "esc", FALSE)
    ELSE Ret(Trailing(pressEsc(mm), "esc"), CmdNil)

C28_TimerOfItsRun ==
    /\ [][(timers' < timers /\ m.view = viewNewTunnel /\ m.step = stepConnecting)
            => timers = 1]_vars
    /\ [][(Len(procs') > Len(procs))
            => /\ m.view = viewNewTunnel /\ m.step = stepConnecting
               /\ m'.view = viewMain
               /\ Len(procs') = Len(procs) + 1
               /\ m'.tunnels.len = m.tunnels.len + 1]_vars


\* C29: no two active tunnels of the collection forward the same local port,
\* and Enter at the local-port step on the local port of an active tunnel is
\* rejected whatever isPortInUse can answer: the wizard stays at the step with
\* the port-in-use error.
C29_DistinctLocalPorts ==
    /\ \A i, j \in 1..Len(Collection) :
          (i /= j /\ Collection[i].active /\ Collection[j].active)
              => Collection[i].localPort /= Collection[j].localPort
    /\ (/\ running = "running"
        /\ m.view = viewNewTunnel /\ m.step = stepLocalPort
        /\ \E i \in 1..Len(Collection) :
              Collection[i].active /\ Collection[i].localPort = m.input)
           => \A inUse \in PortAnswers(m.input) :
                 LET r == handleEnter_stepLocalPort(m, inUse)
                 IN r.m.step = stepLocalPort /\ r.m.err = PortInUseErr(m.input)


\* C30: in the VPN variant the program does not exit before or while the
\* runTunnel goroutine runs ssh: once Enter was pressed at the confirm step,
\* the program has exited only if the goroutine has started ssh and ssh has
\* ended.
C30_AliveWhileTunnelRuns ==
    (running = "exited" /\ m.step = stepRunning)
        => /\ Len(workers) = 1 /\ workers[1].pc = "done"
           /\ Len(procs) = 1 /\ ~procs[1].alive


\* C31: after every Update that adds or removes a tunnel the items of the
\* sidebar list are the tunnels of the collection: as many, in the same order,
\* each a copy of its tunnel, with its id and its active flag.
C31_ListIsCollection ==
    [][(m'.tunnels.len /= m.tunnels.len)
          => /\ Len(m'.tunnelList.items) = Len(CollectionAfter)
             /\ \A i \in 1..Len(CollectionAfter) :
                   /\ m'.tunnelList.items[i] = ListItem(CollectionAfter[i])
                   /\ m'.tunnelList.items[i].id = CollectionAfter[i].id
                   /\ m'.tunnelList.items[i].active = CollectionAfter[i].active]_vars

\* Two tunnels were created and the first was deleted: the list shows the one
\* that is left.
C31_Witness ==
    /\ running = "running"
    /\ deleted = {1}
    /\ m.view = viewMain
    /\ Len(Collection) = 1
    /\ Collection[1].id = 2
    /\ Len(m.tunnelList.items) = 1
    /\ m.tunnelList.items[1].id = 2

====
